---- MODULE Spec2Model ----
(***************************************************************************)
(* A model of src/mos/download_files.py: the Downloader of the             *)
(* matricula-online scraper, run as the script's __main__ block runs it:   *)
(* one Downloader, fetch_record_page(), then download_files().             *)
(*                                                                         *)
(* The program is sequential.  pc is the position of its single thread of  *)
(* control; every action is one path through a block of statements.  The   *)
(* network, the file system and the opaque URL routine are the             *)
(* environment: each of their outcomes is a separate action.               *)
(***************************************************************************)
EXTENDS Integers, Sequences, FiniteSets, TLC

(***************************************************************************)
(* Bounds of the model.                                                    *)
(***************************************************************************)
\* longest "files" / "labels" list a record page embeds
MaxEntries == 2
\* the most negative --range value tried is -MaxNegRange
MaxNegRange == 1
\* number of files that exist below the base directory before the run
MaxPreexisting == 1

(***************************************************************************)
(* Program constants.                                                      *)
(***************************************************************************)
\* while request_attempts < 3
MaxAttempts == 3
\* self.CRAWL_SPEED = 2
DefaultCrawlSpeed == 2
\* sys.exit() with no argument: SystemExit(None), exit status 0
SysExitStatus == 0
\* the interpreter's exit status for an uncaught exception
UncaughtStatus == 1
\* exit status when the script runs to its end
NormalStatus == 0

(***************************************************************************)
(* Values.                                                                 *)
(***************************************************************************)
\* Python's None and an optional value, as a sequence of length 0 or 1
None == <<>>
Some(x) == <<x>>

Labels == {"a", "b"}
DirNames == {"d1", "d2"}
Paths == DirNames \X Labels

\* values of args.range the caller can pass (argparse int, or absent)
RangeValues == {None} \cup {Some(k) : k \in (0 - MaxNegRange)..MaxEntries}
\* values of args.crawl_speed
CrawlSpeedArgs == {None, Some(0 - 1), Some(0), Some(1)}

Min(a, b) == IF a < b THEN a ELSE b
Max(a, b) == IF a > b THEN a ELSE b

\* all sequences over S of length at most n
RECURSIVE SeqsUpTo(_, _)
SeqsUpTo(S, n) ==
    IF n = 0 THEN {<<>>}
    ELSE LET shorter == SeqsUpTo(S, n - 1)
         IN  shorter \cup {Append(s, x) : s \in {t \in shorter : Len(t) = n - 1}, x \in S}

VARIABLES
    \* ---- fields of the Downloader object
    record_URL,              \* self.record_URL
    deep_hierarchy,          \* self.deep_hierarchy
    include_fullname,        \* self.include_fullname
    simple_dirnames,         \* self.simple_dirnames
    file_range,              \* self.file_range: None or Some(int)
    skip_existing,           \* self.skip_existing
    CRAWL_SPEED,             \* self.CRAWL_SPEED
    csrf_token,              \* self.csrf_token: "None" or the cookie's value
    image_URLs_and_labels,   \* None or Some(sequence of <<image path, label>>)
    archive_directory_name,  \* "None" or a directory name; where its text matters (SpecName),
                             \* None or Some(the characters of the name)
    \* ---- the session and the environment
    cookie,                  \* does the session hold shared_csrftoken
    response,                \* None or Some(the record page's response)
    disk,                    \* the files below base_images_dir: path -> content
    dirs,                    \* the archive directories that exist
    \* ---- control
    pc,                      \* position of the single thread of control
    index,                   \* enumerate()'s index of the entry in hand, 0-based; -1 before the loop
    request_attempts,        \* the local request_attempts
    exit_status,             \* None while running, Some(status) once the process has ended
    \* ---- observation (history) variables
    page_requests,           \* GETs of the record page
    parsed_count,            \* length of the zipped list before truncation
    attempted,               \* source positions of the entries requested so far, in first-request order
    requests,                \* image GETs issued for the entry in hand
    saves,                   \* save_image calls for the entry in hand
    unpaced,                 \* a response was received and time.sleep has not run since
    last_sleep,              \* argument of the latest time.sleep, 0 if none
    lastEvent,               \* what the latest step did
    lastLog,                 \* the latest log line
    \* ---- parse_archive_name and create_archive_directory in detail
    pathvalidate,            \* is the pathvalidate package installed (line 16)
    register_data,           \* the cells of the page's register table: None (no table) or Some(texts)
    archive_category,        \* the local archive_category
    archive_id,              \* the local archive_id
    tier,                    \* which tier of parse_archive_name gave the name, 0 if none yet
    archive_directory_path,  \* None or Some(the path given to os.makedirs)
    \* ---- fetch_registers_page_and_download_all
    registers_pages,         \* None or Some(the list of page numbers)
    list_page,               \* how many of registers_pages have been fetched
    rows_fetched,            \* the number of record rows found on each page fetched
    record_urls,             \* the flattened list of record URLs
    record_pos,              \* position in record_urls of the record in hand, 0 before the first
    index_requests           \* GETs of the registers page and of its ?page=n pages

objVars == <<file_range, skip_existing, CRAWL_SPEED, csrf_token,
             image_URLs_and_labels, archive_directory_name>>
envVars == <<cookie, response, disk, dirs>>
ctlVars == <<pc, index, request_attempts, exit_status>>
obsVars == <<page_requests, parsed_count, attempted, requests, saves,
             unpaced, last_sleep, lastEvent, lastLog>>
nameVars == <<record_URL, deep_hierarchy, include_fullname, simple_dirnames, pathvalidate,
              register_data, archive_category, archive_id, tier, archive_directory_path>>
batchVars == <<registers_pages, list_page, rows_fetched, record_urls, record_pos,
               index_requests>>
\* what the steps of a single record's fetch and download leave alone
extVars == <<nameVars, batchVars>>
vars == <<objVars, envVars, ctlVars, obsVars, extVars>>

(***************************************************************************)
(* Log lines: level, kind, file number and attempt number (0 when the line *)
(* has none).                                                              *)
(***************************************************************************)
LogLine(level, kind, n, k) == [level |-> level, kind |-> kind, file |-> n, attempt |-> k]
NoLog == LogLine("none", "none", 0, 0)

(***************************************************************************)
(* Downloader.__init__                                                     *)
(***************************************************************************)
\* if args.crawl_speed and args.crawl_speed > 0: self.CRAWL_SPEED = args.crawl_speed
InitCrawlSpeed(arg) ==
    IF arg # None /\ arg[1] # 0 /\ arg[1] > 0 THEN arg[1] ELSE DefaultCrawlSpeed

\* the files that exist before the run
InitialDisks ==
    {[p \in Paths |-> IF p \in S THEN "preexisting" ELSE "absent"] :
        S \in {T \in SUBSET Paths : Cardinality(T) <= MaxPreexisting}}

\* the variables the run of __main__ does not use
NamingIdle ==
    /\ record_URL = None
    /\ deep_hierarchy = FALSE
    /\ include_fullname = FALSE
    /\ simple_dirnames = FALSE
    /\ pathvalidate = FALSE
    /\ register_data = None
    /\ archive_category = None
    /\ archive_id = None
    /\ tier = 0
    /\ archive_directory_path = None

BatchIdle ==
    /\ registers_pages = None
    /\ list_page = 0
    /\ rows_fetched = <<>>
    /\ record_urls = <<>>
    /\ record_pos = 0
    /\ index_requests = 0

Init ==
    /\ NamingIdle
    /\ BatchIdle
    /\ \E useArgs \in BOOLEAN, r \in RangeValues, s \in BOOLEAN, c \in CrawlSpeedArgs :
          /\ file_range = IF useArgs THEN r ELSE None
          /\ skip_existing = IF useArgs THEN s ELSE FALSE
          /\ CRAWL_SPEED = IF useArgs THEN InitCrawlSpeed(c) ELSE DefaultCrawlSpeed
    /\ csrf_token = "None"
    /\ image_URLs_and_labels = None
    /\ archive_directory_name = "None"
    /\ cookie = FALSE
    /\ response = None
    /\ disk \in InitialDisks
    /\ dirs = {p[1] : p \in {q \in Paths : disk[q] # "absent"}}
    /\ pc = "fetch_record_page"
    /\ index = 0 - 1
    /\ request_attempts = 0
    /\ exit_status = None
    /\ page_requests = 0
    /\ parsed_count = 0
    /\ attempted = <<>>
    /\ requests = 0
    /\ saves = 0
    /\ unpaced = FALSE
    /\ last_sleep = 0
    /\ lastEvent = "init"
    /\ lastLog = NoLog

(***************************************************************************)
(* Downloader.log_error_and_exit: logging.error(msg); sys.exit().          *)
(* SystemExit is not an Exception, so no "except Exception" of the file    *)
(* catches it: the process ends.                                           *)
(***************************************************************************)
log_error_and_exit(kind) ==
    /\ lastLog' = LogLine("error", kind, 0, 0)
    /\ exit_status' = Some(SysExitStatus)
    /\ pc' = "exited"

(***************************************************************************)
(* The record page.  A response is its status and what the parser looks    *)
(* for in its text: the '"files":' marker, the word labels (with or        *)
(* without the quotes and the colon of the '"labels":' marker), whether    *)
(* the two sliced literals evaluate, and the two lists.  The image paths   *)
(* are named by their position in the "files" list.                        *)
(***************************************************************************)
Page(status, fm, lw, lm, ok, nfiles, labels) ==
    [status |-> status, files_marker |-> fm, labels_word |-> lw,
     labels_marker |-> lm, literal_ok |-> ok, nfiles |-> nfiles, labels |-> labels]

\* a 200 page whose two lists slice and evaluate: each holds at least one string
GoodPages ==
    {Page(200, TRUE, TRUE, TRUE, TRUE, n, ls) :
        n \in 1..MaxEntries, ls \in SeqsUpTo(Labels, MaxEntries) \ {<<>>}}

\* a 200 page on which the extraction fails: a marker is missing (the word
\* labels may be there without the marker), or a literal does not evaluate
BadPages ==
    {p \in [status : {200}, files_marker : BOOLEAN, labels_word : BOOLEAN,
            labels_marker : BOOLEAN, literal_ok : {FALSE}, nfiles : {0},
            labels : {<<>>}] :
        p.labels_marker => p.labels_word}

Pages == GoodPages \cup BadPages

ErrorPage == Page(404, FALSE, FALSE, FALSE, FALSE, 0, <<>>)

\* tuple(zip(full_files_list, full_labels_list))
Zip(nfiles, labels) ==
    [i \in 1..Min(nfiles, Len(labels)) |-> <<i, labels[i]>>]

\* Python's s[0:k]
PySlice0(s, k) ==
    IF k >= 0 THEN SubSeq(s, 1, Min(k, Len(s)))
    ELSE SubSeq(s, 1, Max(0, Len(s) + k))

\* if self.file_range is not None and self.file_range < len(...): truncate
Truncate(s, range) ==
    IF range # None /\ range[1] < Len(s) THEN PySlice0(s, range[1]) ELSE s

(***************************************************************************)
(* fetch_record_page, line 126: the GET of the record page.                *)
(***************************************************************************)
\* the GET raises (a connection error, a timeout): except Exception, line 136
FetchPageRaises ==
    /\ pc = "fetch_record_page"
    /\ page_requests' = page_requests + 1
    /\ lastEvent' = "page_exception"
    /\ log_error_and_exit("unexpected_error_fetching_record_page")
    /\ UNCHANGED <<objVars, envVars, index, request_attempts>>
    /\ UNCHANGED <<parsed_count, attempted, requests, saves, unpaced, last_sleep>>
    /\ UNCHANGED extVars

\* a batch loop that logs the status and goes on with the next record
FetchPageNon200_NextRecord ==
    /\ pc = "fetch_record_page"
    /\ page_requests' = page_requests + 1
    /\ response' = Some(ErrorPage)
    /\ cookie' \in BOOLEAN
    /\ lastEvent' = "page_non200"
    /\ lastLog' = LogLine("error", "status_code_fetching_csrf_token", 0, 0)
    /\ pc' = "records"
    /\ UNCHANGED <<objVars, disk, dirs, index, request_attempts, exit_status>>
    /\ UNCHANGED <<parsed_count, attempted, requests, saves, unpaced, last_sleep>>
    /\ UNCHANGED extVars

\* status_code != 200: the else branch, line 133
FetchPageNon200 ==
    /\ pc = "fetch_record_page"
    /\ page_requests' = page_requests + 1
    /\ response' = Some(ErrorPage)
    /\ cookie' \in BOOLEAN
    /\ lastEvent' = "page_non200"
    /\ log_error_and_exit("status_code_fetching_csrf_token")
    /\ UNCHANGED <<objVars, disk, dirs, index, request_attempts>>
    /\ UNCHANGED <<parsed_count, attempted, requests, saves, unpaced, last_sleep>>
    /\ UNCHANGED extVars

\* status_code == 200: the server may or may not have set the cookie
FetchPage200 ==
    /\ pc = "fetch_record_page"
    /\ page_requests' = page_requests + 1
    /\ \E p \in Pages : response' = Some(p)
    /\ cookie' \in BOOLEAN
    /\ lastEvent' = "page_200"
    /\ pc' = "get_csrf_token"
    /\ UNCHANGED <<objVars, disk, dirs, index, request_attempts, exit_status>>
    /\ UNCHANGED <<parsed_count, attempted, requests, saves, unpaced, last_sleep, lastLog>>
    /\ UNCHANGED extVars

(***************************************************************************)
(* get_csrf_token                                                          *)
(***************************************************************************)
GetCsrfTokenFound ==
    /\ pc = "get_csrf_token"
    /\ cookie
    /\ csrf_token' = "token"
    /\ lastLog' = LogLine("info", "fetched_csrf", 0, 0)
    /\ lastEvent' = "csrf_found"
    /\ pc' = "parse_image_URLs_and_labels"
    /\ UNCHANGED <<file_range, skip_existing, CRAWL_SPEED, image_URLs_and_labels,
                   archive_directory_name>>
    /\ UNCHANGED <<envVars, index, request_attempts, exit_status>>
    /\ UNCHANGED <<page_requests, parsed_count, attempted, requests, saves, unpaced, last_sleep>>
    /\ UNCHANGED extVars

\* a client that goes on with a default token when the cookie is missing
GetCsrfTokenMissing_Default ==
    /\ pc = "get_csrf_token"
    /\ ~cookie
    /\ csrf_token' = "token"
    /\ lastEvent' = "csrf_missing"
    /\ pc' = "parse_image_URLs_and_labels"
    /\ UNCHANGED <<file_range, skip_existing, CRAWL_SPEED, image_URLs_and_labels,
                   archive_directory_name>>
    /\ UNCHANGED <<envVars, index, request_attempts, exit_status>>
    /\ UNCHANGED <<page_requests, parsed_count, attempted, requests, saves, unpaced,
                   last_sleep, lastLog>>
    /\ UNCHANGED extVars

\* the cookie is missing: log_error_and_exit, line 148
GetCsrfTokenMissing ==
    /\ pc = "get_csrf_token"
    /\ ~cookie
    /\ lastEvent' = "csrf_missing"
    /\ log_error_and_exit("csrf_token_not_received")
    /\ UNCHANGED <<objVars, envVars, index, request_attempts>>
    /\ UNCHANGED <<page_requests, parsed_count, attempted, requests, saves, unpaced, last_sleep>>
    /\ UNCHANGED extVars

(***************************************************************************)
(* parse_image_URLs_and_labels                                             *)
(***************************************************************************)
\* the test of lines 196-199
MarkersMissing(p) == ~p.files_marker \/ ~p.labels_word

\* an extraction that logs the error and goes on with an empty list
ParseImagesMarkersMissing_GoesOn ==
    /\ pc = "parse_image_URLs_and_labels"
    /\ MarkersMissing(response[1])
    /\ lastLog' = LogLine("error", "error_parsing_image_urls", 0, 0)
    /\ image_URLs_and_labels' = Some(<<>>)
    /\ lastEvent' = "markers_missing"
    /\ pc' = "parse_archive_name"
    /\ UNCHANGED <<file_range, skip_existing, CRAWL_SPEED, csrf_token, archive_directory_name>>
    /\ UNCHANGED <<envVars, index, request_attempts, exit_status>>
    /\ UNCHANGED <<page_requests, parsed_count, attempted, requests, saves, unpaced, last_sleep>>
    /\ UNCHANGED extVars

\* '"files":' not in text or "labels" not in text: log_error_and_exit, line 200
ParseImagesMarkersMissing ==
    /\ pc = "parse_image_URLs_and_labels"
    /\ MarkersMissing(response[1])
    /\ lastEvent' = "markers_missing"
    /\ log_error_and_exit("error_parsing_image_urls")
    /\ UNCHANGED <<objVars, envVars, index, request_attempts>>
    /\ UNCHANGED <<page_requests, parsed_count, attempted, requests, saves, unpaced, last_sleep>>
    /\ UNCHANGED extVars

\* the test passes, but split('"labels":')[1] or literal_eval raises: the
\* exception reaches fetch_record_page's except Exception, line 136
ParseImagesRaises ==
    /\ pc = "parse_image_URLs_and_labels"
    /\ ~MarkersMissing(response[1])
    /\ ~response[1].labels_marker \/ ~response[1].literal_ok
    /\ lastEvent' = "parse_exception"
    /\ log_error_and_exit("unexpected_error_fetching_record_page")
    /\ UNCHANGED <<objVars, envVars, index, request_attempts>>
    /\ UNCHANGED <<page_requests, parsed_count, attempted, requests, saves, unpaced, last_sleep>>
    /\ UNCHANGED extVars

ParseImagesOk ==
    /\ pc = "parse_image_URLs_and_labels"
    /\ ~MarkersMissing(response[1])
    /\ response[1].labels_marker /\ response[1].literal_ok
    /\ LET zipped == Zip(response[1].nfiles, response[1].labels)
       IN  /\ parsed_count' = Len(zipped)
           /\ image_URLs_and_labels' = Some(Truncate(zipped, file_range))
    /\ lastLog' = LogLine("info", "fetched_list_of_images", 0, 0)
    /\ lastEvent' = "parsed"
    /\ pc' = "parse_archive_name"
    /\ UNCHANGED <<file_range, skip_existing, CRAWL_SPEED, csrf_token, archive_directory_name>>
    /\ UNCHANGED <<envVars, index, request_attempts, exit_status>>
    /\ UNCHANGED <<page_requests, attempted, requests, saves, unpaced, last_sleep>>
    /\ UNCHANGED extVars

(***************************************************************************)
(* parse_archive_name: every failure inside it is caught, and it always    *)
(* leaves a name.  Which name is a function of the page and the URL; here  *)
(* it is any of DirNames.                                                  *)
(***************************************************************************)
ParseArchiveName ==
    /\ pc = "parse_archive_name"
    /\ archive_directory_name' \in DirNames
    /\ lastEvent' = "named"
    /\ pc' = "create_archive_directory"
    /\ UNCHANGED <<file_range, skip_existing, CRAWL_SPEED, csrf_token, image_URLs_and_labels>>
    /\ UNCHANGED <<envVars, index, request_attempts, exit_status>>
    /\ UNCHANGED <<page_requests, parsed_count, attempted, requests, saves, unpaced,
                   last_sleep, lastLog>>
    /\ UNCHANGED extVars

\* a fetch_record_page that goes on to download_files without os.makedirs
CreateArchiveDirectory_NoMakedirs ==
    /\ pc = "create_archive_directory"
    /\ lastEvent' = "directory_created"
    /\ pc' = "for"
    /\ UNCHANGED <<objVars, envVars, index, request_attempts, exit_status>>
    /\ UNCHANGED <<page_requests, parsed_count, attempted, requests, saves, unpaced,
                   last_sleep, lastLog>>
    /\ UNCHANGED extVars

(***************************************************************************)
(* create_archive_directory: os.makedirs(path, exist_ok=True), after which *)
(* fetch_record_page returns and __main__ calls download_files.            *)
(***************************************************************************)
CreateArchiveDirectory ==
    /\ pc = "create_archive_directory"
    /\ dirs' = dirs \cup {archive_directory_name}
    /\ lastEvent' = "directory_created"
    /\ pc' = "for"
    /\ UNCHANGED <<objVars, cookie, response, disk, index, request_attempts, exit_status>>
    /\ UNCHANGED <<page_requests, parsed_count, attempted, requests, saves, unpaced,
                   last_sleep, lastLog>>
    /\ UNCHANGED extVars

\* os.makedirs raises (no permission, a file in the way): except Exception, line 136
CreateArchiveDirectoryRaises ==
    /\ pc = "create_archive_directory"
    /\ archive_directory_name \notin dirs
    /\ lastEvent' = "mkdir_exception"
    /\ log_error_and_exit("unexpected_error_fetching_record_page")
    /\ UNCHANGED <<objVars, envVars, index, request_attempts>>
    /\ UNCHANGED <<page_requests, parsed_count, attempted, requests, saves, unpaced, last_sleep>>
    /\ UNCHANGED extVars

(***************************************************************************)
(* download_files.  The entry in hand is entry index + 1 of the list.      *)
(***************************************************************************)
Entries == image_URLs_and_labels[1]
Entry == Entries[index + 1]
file_number == index + 1
\* os.path.join(base_images_dir, archive_directory_name, label + ".jpg")
file_path == <<archive_directory_name, Entry[2]>>
NextLabel == Entries[index + 2][2]
NextPath == <<archive_directory_name, NextLabel>>

\* the for loop has a next entry
HasNext == pc = "for" /\ index + 1 < Len(Entries)

\* the list is exhausted: download_files returns and the script ends
ForExhausted ==
    /\ pc = "for"
    /\ index + 1 >= Len(Entries)
    /\ pc' = "done"
    /\ exit_status' = Some(NormalStatus)
    /\ lastEvent' = "returned"
    /\ UNCHANGED <<objVars, envVars, index, request_attempts>>
    /\ UNCHANGED <<page_requests, parsed_count, attempted, requests, saves, unpaced,
                   last_sleep, lastLog>>
    /\ UNCHANGED extVars

\* lines 278-280: the next entry is taken, request_attempts = 0, and
\* encryption_routine.createValidURL raises.  The call stands outside the try
\* of line 292: the exception leaves download_files and, uncaught in __main__,
\* ends the process with a traceback.
ForResolveRaises ==
    /\ HasNext
    /\ index' = index + 1
    /\ request_attempts' = 0
    /\ requests' = 0
    /\ saves' = 0
    /\ lastEvent' = "resolve_error"
    /\ pc' = "exited"
    /\ exit_status' = Some(UncaughtStatus)
    /\ UNCHANGED <<objVars, envVars>>
    /\ UNCHANGED <<page_requests, parsed_count, attempted, unpaced, last_sleep, lastLog>>
    /\ UNCHANGED extVars

\* lines 278-289: the URL resolves, skip_existing is set and the file exists
ForSkipExisting ==
    /\ HasNext
    /\ skip_existing /\ disk[NextPath] # "absent"
    /\ index' = index + 1
    /\ request_attempts' = 0
    /\ requests' = 0
    /\ saves' = 0
    /\ lastLog' = LogLine("info", "skip_existing", index + 2, 0)
    /\ lastEvent' = "skip_existing"
    /\ pc' = "for"
    /\ UNCHANGED <<objVars, envVars, exit_status>>
    /\ UNCHANGED <<page_requests, parsed_count, attempted, unpaced, last_sleep>>
    /\ UNCHANGED extVars

\* a loop that never looks at skip_existing
ForStartFile_NoSkipCheck ==
    /\ HasNext
    /\ index' = index + 1
    /\ request_attempts' = 0
    /\ requests' = 0
    /\ saves' = 0
    /\ lastEvent' = "start_file"
    /\ pc' = "while"
    /\ UNCHANGED <<objVars, envVars, exit_status>>
    /\ UNCHANGED <<page_requests, parsed_count, attempted, unpaced, last_sleep, lastLog>>
    /\ UNCHANGED extVars

\* lines 278-291: the URL resolves and the file is not skipped
ForStartFile ==
    /\ HasNext
    /\ ~(skip_existing /\ disk[NextPath] # "absent")
    /\ index' = index + 1
    /\ request_attempts' = 0
    /\ requests' = 0
    /\ saves' = 0
    /\ lastEvent' = "start_file"
    /\ pc' = "while"
    /\ UNCHANGED <<objVars, envVars, exit_status>>
    /\ UNCHANGED <<page_requests, parsed_count, attempted, unpaced, last_sleep, lastLog>>
    /\ UNCHANGED extVars

\* a loop that tests request_attempts <= 3
WhileCondition_OffByOne == request_attempts <= MaxAttempts

\* while request_attempts < 3
WhileCondition == request_attempts < MaxAttempts

\* the while condition is false: on to the next entry
WhileExhausted ==
    /\ pc = "while"
    /\ ~WhileCondition
    /\ lastEvent' = "attempts_exhausted"
    /\ pc' = "for"
    /\ UNCHANGED <<objVars, envVars, index, request_attempts, exit_status>>
    /\ UNCHANGED <<page_requests, parsed_count, attempted, requests, saves, unpaced,
                   last_sleep, lastLog>>
    /\ UNCHANGED extVars

\* self.session.get(url, ...) of line 293 is issued for the entry in hand
CanRequest == pc = "while" /\ WhileCondition

IssueRequest ==
    /\ requests' = requests + 1
    /\ attempted' = IF \E i \in 1..Len(attempted) : attempted[i] = Entry[1]
                    THEN attempted ELSE Append(attempted, Entry[1])

\* 200, and save_image writes the file: sleep follows
Request200Saved ==
    /\ CanRequest
    /\ IssueRequest
    /\ saves' = saves + 1
    /\ lastLog' = LogLine("info", "downloaded", file_number, 0)
    /\ disk' = [disk EXCEPT ![file_path] = "image"]
    /\ unpaced' = TRUE
    /\ lastEvent' = "saved"
    /\ pc' = "sleep"
    /\ UNCHANGED <<objVars, cookie, response, dirs, index, request_attempts, exit_status>>
    /\ UNCHANGED <<page_requests, parsed_count, last_sleep>>
    /\ UNCHANGED extVars

\* 200, and save_image raises in open() or in write(): except Exception,
\* line 312, logs and breaks; time.sleep of line 300 is not reached
Request200WriteRaises ==
    /\ CanRequest
    /\ IssueRequest
    /\ saves' = saves + 1
    /\ lastLog' = LogLine("info", "skipping_exception", file_number, 0)
    /\ \E left \in {disk[file_path], "partial"} : disk' = [disk EXCEPT ![file_path] = left]
    /\ unpaced' = TRUE
    /\ lastEvent' = "write_error"
    /\ pc' = "for"
    /\ UNCHANGED <<objVars, cookie, response, dirs, index, request_attempts, exit_status>>
    /\ UNCHANGED <<page_requests, parsed_count, last_sleep>>
    /\ UNCHANGED extVars

\* a loop that requests the file again after a status other than 200
RequestNon200_Retries ==
    /\ CanRequest
    /\ IssueRequest
    /\ lastLog' = LogLine("info", "skipping_status", file_number, 0)
    /\ unpaced' = TRUE
    /\ request_attempts' = request_attempts + 1
    /\ lastEvent' = "non200"
    /\ pc' = "while"
    /\ UNCHANGED <<objVars, envVars, index, exit_status>>
    /\ UNCHANGED <<page_requests, parsed_count, saves, last_sleep>>
    /\ UNCHANGED extVars

\* a response whose status is not 200: logged, sleep follows
RequestNon200 ==
    /\ CanRequest
    /\ IssueRequest
    /\ lastLog' = LogLine("info", "skipping_status", file_number, 0)
    /\ unpaced' = TRUE
    /\ lastEvent' = "non200"
    /\ pc' = "sleep"
    /\ UNCHANGED <<objVars, envVars, index, request_attempts, exit_status>>
    /\ UNCHANGED <<page_requests, parsed_count, saves, last_sleep>>
    /\ UNCHANGED extVars

\* requests.exceptions.ConnectionError, lines 302-311: inside the loop
\* request_attempts < 3 holds, so the else branch of line 308 is never taken
RequestConnectionError ==
    /\ CanRequest
    /\ IssueRequest
    /\ IF request_attempts < MaxAttempts
       THEN /\ request_attempts' = request_attempts + 1
            /\ lastLog' = LogLine("info", "retrying", file_number, request_attempts + 1)
       ELSE /\ request_attempts' = request_attempts
            /\ lastLog' = LogLine("info", "skipping_failed_attempts", file_number,
                                  request_attempts)
    /\ lastEvent' = "connection_error"
    /\ pc' = "while"
    /\ UNCHANGED <<objVars, envVars, index, exit_status>>
    /\ UNCHANGED <<page_requests, parsed_count, saves, unpaced, last_sleep>>
    /\ UNCHANGED extVars

\* a loop without the except Exception of line 312: the exception leaves
\* download_files and ends the process
RequestOtherError_Propagates ==
    /\ CanRequest
    /\ IssueRequest
    /\ lastEvent' = "other_error"
    /\ pc' = "exited"
    /\ exit_status' = Some(UncaughtStatus)
    /\ UNCHANGED <<objVars, envVars, index, request_attempts>>
    /\ UNCHANGED <<page_requests, parsed_count, saves, unpaced, last_sleep, lastLog>>
    /\ UNCHANGED extVars

\* any other exception of the GET: except Exception, line 312, logs and breaks
RequestOtherError ==
    /\ CanRequest
    /\ IssueRequest
    /\ lastLog' = LogLine("info", "skipping_exception", file_number, 0)
    /\ lastEvent' = "other_error"
    /\ pc' = "for"
    /\ UNCHANGED <<objVars, envVars, index, request_attempts, exit_status>>
    /\ UNCHANGED <<page_requests, parsed_count, saves, unpaced, last_sleep>>
    /\ UNCHANGED extVars

\* time.sleep(self.CRAWL_SPEED); break
Sleep ==
    /\ pc = "sleep"
    /\ last_sleep' = CRAWL_SPEED
    /\ unpaced' = FALSE
    /\ lastEvent' = "slept"
    /\ pc' = "for"
    /\ UNCHANGED <<objVars, envVars, index, request_attempts, exit_status>>
    /\ UNCHANGED <<page_requests, parsed_count, attempted, requests, saves, lastLog>>
    /\ UNCHANGED extVars

fetch_record_page ==
    \/ FetchPageRaises
    \/ FetchPageNon200
    \/ FetchPage200
    \/ GetCsrfTokenFound
    \/ GetCsrfTokenMissing
    \/ ParseImagesMarkersMissing
    \/ ParseImagesRaises
    \/ ParseImagesOk
    \/ ParseArchiveName
    \/ CreateArchiveDirectory
    \/ CreateArchiveDirectoryRaises

download_files ==
    \/ ForExhausted
    \/ ForResolveRaises
    \/ ForSkipExisting
    \/ ForStartFile
    \/ WhileExhausted
    \/ Request200Saved
    \/ Request200WriteRaises
    \/ RequestNon200
    \/ RequestConnectionError
    \/ RequestOtherError
    \/ Sleep

Next == fetch_record_page \/ download_files

Spec == Init /\ [][Next]_vars

(***************************************************************************)
(* Shapes of the state.                                                    *)
(***************************************************************************)
TypeOK ==
    /\ file_range \in RangeValues
    /\ skip_existing \in BOOLEAN
    /\ CRAWL_SPEED \in {DefaultCrawlSpeed, 1}
    /\ csrf_token \in {"None", "token"}
    /\ archive_directory_name \in DirNames \cup {"None"}
    /\ cookie \in BOOLEAN
    /\ response \in {None} \cup {Some(p) : p \in Pages \cup {ErrorPage}}
    /\ disk \in [Paths -> {"absent", "preexisting", "image", "partial"}]
    /\ dirs \subseteq DirNames
    /\ pc \in {"fetch_record_page", "get_csrf_token", "parse_image_URLs_and_labels",
               "parse_archive_name", "create_archive_directory", "for", "while",
               "sleep", "done", "exited"}
    /\ request_attempts \in 0..MaxAttempts
    /\ exit_status \in {None, Some(0), Some(1)}
    /\ pc \in {"for", "while", "sleep", "done"} => image_URLs_and_labels # None
    /\ pc \in {"while", "sleep"} => index + 1 \in 1..Len(Entries)

\* the source positions 1..n in order
FirstN(n) == [i \in 1..n |-> i]

\* the directories the files on disk lie in: the directories that exist as
\* long as create_archive_directory has not run
DirsOfDisk == {p[1] : p \in {q \in Paths : disk[q] # "absent"}}

\* nothing of the record has been extracted, created or requested
NothingDone ==
    /\ image_URLs_and_labels = None
    /\ archive_directory_name = "None"
    /\ dirs = DirsOfDisk
    /\ attempted = <<>>
    /\ requests = 0
    /\ saves = 0

(***************************************************************************)
(* C1.  A file every request of which ends in a connection error is        *)
(* requested exactly 3 times and then abandoned: the process goes on, not   *)
(* ended, to the next entry of the loop, and every entry starts with        *)
(* request_attempts = 0 and is never requested more than 3 times.           *)
(***************************************************************************)
C1_ThreeAttemptsThenNext ==
    /\ lastEvent = "attempts_exhausted" =>
          /\ requests = MaxAttempts
          /\ request_attempts = MaxAttempts
          /\ saves = 0
          /\ pc = "for"
          /\ exit_status = None
    /\ lastEvent = "start_file" => request_attempts = 0 /\ requests = 0
    /\ pc = "while" => requests = request_attempts
    /\ requests <= MaxAttempts

\* a file has been given up after three connection errors and another entry waits
C1_Witness ==
    /\ lastEvent = "attempts_exhausted"
    /\ requests = 3
    /\ HasNext

(***************************************************************************)
(* C2.  With no file_range and skip_existing off, when download_files      *)
(* returns every one of the N parsed entries has been requested, in source *)
(* order; at any moment the entries requested are the first ones of the    *)
(* list, in order; and no outcome of a request (200, not 200, connection    *)
(* error, other error) ends the loop or the process.                        *)
(***************************************************************************)
C2_AllAttemptedInOrder ==
    /\ \A i, j \in 1..Len(attempted) : i < j => attempted[i] < attempted[j]
    /\ lastEvent \in {"saved", "write_error", "non200", "connection_error",
                      "other_error", "slept", "attempts_exhausted"} =>
          pc \in {"for", "while", "sleep"} /\ exit_status = None
    /\ (file_range = None /\ ~skip_existing) =>
          /\ attempted = FirstN(Len(attempted))
          /\ pc \in {"for", "while", "sleep", "done"} => Len(Entries) = parsed_count
          /\ pc = "while" /\ requests > 0 => Len(attempted) = index + 1
          /\ pc = "for" /\ index >= 0 => Len(attempted) = index + 1
          /\ pc = "done" => attempted = FirstN(parsed_count)

\* download_files has returned after requesting both of two entries, neither
\* of which was saved
C2_Witness ==
    /\ pc = "done"
    /\ file_range = None /\ ~skip_existing
    /\ parsed_count = 2
    /\ attempted = <<1, 2>>
    /\ \A q \in Paths : disk[q] # "image"

(***************************************************************************)
(* C3.  For every integer file_range k below the number N of parsed        *)
(* entries, only entries among the first k of the list are ever requested, *)
(* and when download_files returns (skip_existing off) exactly the first k *)
(* have been.  No entry is among the first k when k <= 0.                  *)
(***************************************************************************)
C3_FirstKOnly ==
    (file_range # None /\ image_URLs_and_labels # None /\ file_range[1] < parsed_count) =>
        /\ \A i \in 1..Len(attempted) : attempted[i] <= file_range[1]
        /\ (pc = "done" /\ ~skip_existing) => attempted = FirstN(file_range[1])

\* the same for the values of k that are counts, k >= 0
C3_NonNegativeK ==
    (file_range # None /\ image_URLs_and_labels # None /\ file_range[1] < parsed_count
        /\ file_range[1] >= 0) =>
        /\ \A i \in 1..Len(attempted) : attempted[i] <= file_range[1]
        /\ (pc = "done" /\ ~skip_existing) => attempted = FirstN(file_range[1])

(***************************************************************************)
(* C4.  Every fatal condition (the record page answers with a status other *)
(* than 200, the CSRF cookie is missing, a marker of the embedded lists is *)
(* missing, the parse raises) ends the process through log_error_and_exit: *)
(* an error is logged and the exit status is not zero.                     *)
(***************************************************************************)
FatalEvents == {"page_non200", "csrf_missing", "markers_missing", "parse_exception"}

C4_FatalExitsNonZero ==
    lastEvent \in FatalEvents =>
        /\ pc = "exited"
        /\ lastLog.level = "error"
        /\ exit_status # None
        /\ exit_status # Some(0)

\* what holds of the code: the process ends with an error logged
C4_FatalExits ==
    lastEvent \in FatalEvents =>
        /\ pc = "exited"
        /\ lastLog.level = "error"
        /\ exit_status = Some(SysExitStatus)

(***************************************************************************)
(* C5.  When the record page's text lacks the "files": marker or the       *)
(* "labels": marker, the record is never processed further than the entry  *)
(* extraction: the process ends there (or earlier, on the missing cookie), *)
(* no entry list is stored, no directory is named or created and no image  *)
(* is requested.                                                           *)
(***************************************************************************)
MarkerAbsent ==
    /\ response # None
    /\ response[1].status = 200
    /\ ~response[1].files_marker \/ ~response[1].labels_marker

C5_MarkerAbsentIsFatal ==
    MarkerAbsent =>
        /\ pc \in {"get_csrf_token", "parse_image_URLs_and_labels", "exited"}
        /\ NothingDone
        /\ pc = "exited" =>
              /\ lastEvent \in {"csrf_missing", "markers_missing", "parse_exception"}
              /\ lastLog.level = "error"
        /\ (pc = "exited" /\ csrf_token # "None") =>
              lastEvent \in {"markers_missing", "parse_exception"}

\* the page holds the word labels but not the "labels": marker, and the
\* extraction has ended the process
C5_Witness ==
    /\ MarkerAbsent
    /\ response[1].files_marker /\ response[1].labels_word
    /\ pc = "exited"
    /\ lastEvent = "parse_exception"

(***************************************************************************)
(* C6.  With skip_existing set, an entry whose target file exists is       *)
(* passed over: the step that takes it issues no request, calls save_image *)
(* not at all, leaves every file as it is and leaves the loop at its head  *)
(* for the next entry; and no request is ever issued for an entry whose    *)
(* file exists.                                                            *)
(***************************************************************************)
SkipCase == HasNext /\ skip_existing /\ disk[NextPath] # "absent"

C6_SkipState ==
    /\ lastEvent = "skip_existing" =>
          /\ requests = 0
          /\ request_attempts = 0
          /\ saves = 0
          /\ pc = "for"
          /\ exit_status = None
          /\ lastLog = LogLine("info", "skip_existing", file_number, 0)
    /\ (skip_existing /\ pc = "while") => disk[file_path] = "absent"

C6_SkipExisting ==
    /\ []C6_SkipState
    /\ [][SkipCase =>
            /\ disk' = disk
            /\ attempted' = attempted
            /\ requests' = 0
            /\ saves' = 0
            /\ request_attempts' = 0
            /\ index' = index + 1
            /\ pc' # "while"]_vars

\* the first entry was downloaded, and the second, which has the same label,
\* has been skipped
C6_Witness ==
    /\ lastEvent = "skip_existing"
    /\ index = 1
    /\ attempted = <<1>>
    /\ disk[file_path] = "image"

(***************************************************************************)
(* C7.  A file is requested again only after a connection error: while the *)
(* retry loop runs, every request made so far for the file has ended in a  *)
(* connection error.  The first response ends the file's attempts: on 200  *)
(* save_image is called, once, and the file holds the image (unless the    *)
(* write itself raises, which ends the attempts too); on another status    *)
(* save_image is not called and no file changes.                           *)
(***************************************************************************)
C7_State ==
    /\ pc = "while" => requests = request_attempts /\ saves = 0
    /\ saves <= 1
    /\ lastEvent = "saved" =>
          saves = 1 /\ disk[file_path] = "image" /\ pc = "sleep"
    /\ lastEvent = "write_error" =>
          saves = 1 /\ pc = "for"
    /\ lastEvent = "non200" => saves = 0 /\ pc = "sleep"
    /\ pc = "sleep" => lastEvent \in {"saved", "non200"}

C7_RetryOnlyOnConnectionError ==
    /\ []C7_State
    /\ [][/\ (lastEvent' = "non200" /\ pc' = "sleep") => disk' = disk
          /\ pc = "sleep" => (pc' = "for" /\ requests' = requests /\ disk' = disk)
          /\ (pc = "while" /\ pc' = "while") => lastEvent' = "connection_error"
          /\ disk' # disk => (saves' = saves + 1 /\ requests' = requests + 1)]_vars

\* a file was saved by its third request, after two connection errors
C7_Witness ==
    /\ lastEvent = "saved"
    /\ requests = 3
    /\ request_attempts = 2
    /\ saves = 1

(***************************************************************************)
(* C8.  An error other than a connection error while an entry is handled   *)
(* (its URL resolved, its image requested, its bytes written) abandons     *)
(* that entry only: the process has not ended and the loop is at its head  *)
(* for the next entry.                                                     *)
(***************************************************************************)
C8_OtherErrorsAbandonOnlyTheEntry ==
    lastEvent \in {"resolve_error", "other_error", "write_error"} =>
        /\ pc = "for"
        /\ exit_status = None

\* what holds of the code: the errors raised inside the try of line 292
C8_ErrorsInsideTheTry ==
    lastEvent \in {"other_error", "write_error"} =>
        /\ pc = "for"
        /\ exit_status = None

(***************************************************************************)
(* C9.  time.sleep(CRAWL_SPEED) runs after every image request that        *)
(* received a response, before the next request is issued, and never       *)
(* between a connection error and the retry.                               *)
(***************************************************************************)
C9_PacedAfterEveryResponse ==
    /\ pc = "while" => ~unpaced
    /\ pc = "sleep" => lastEvent \in {"saved", "non200"}
    /\ lastEvent = "slept" => last_sleep = CRAWL_SPEED
    /\ lastEvent = "connection_error" => pc = "while"

\* what holds of the code: the pacing after the responses whose handling
\* raised nothing
C9_PacedUnlessWriteRaised ==
    /\ lastEvent \in {"saved", "non200"} => pc = "sleep"
    /\ pc = "sleep" => lastEvent \in {"saved", "non200"}
    /\ lastEvent = "slept" => last_sleep = CRAWL_SPEED
    /\ lastEvent = "connection_error" => pc = "while"
    /\ lastEvent = "write_error" => pc = "for" /\ unpaced

(***************************************************************************)
(* C10.  The record page is requested once.  A status other than 200, and  *)
(* a 200 after which the session holds no shared_csrftoken cookie, end the *)
(* process with csrf_token still None, before any entry is extracted, any  *)
(* directory named or created, any image requested.                        *)
(***************************************************************************)
C10_PageFailureIsFatal ==
    /\ page_requests <= 1
    /\ pc # "fetch_record_page" => page_requests = 1
    /\ lastEvent = "page_non200" =>
          pc = "exited" /\ csrf_token = "None" /\ NothingDone /\ lastLog.level = "error"
    /\ (response # None /\ response[1].status = 200 /\ ~cookie) =>
          /\ pc \in {"get_csrf_token", "exited"}
          /\ csrf_token = "None"
          /\ NothingDone
          /\ pc = "exited" => lastEvent = "csrf_missing" /\ lastLog.level = "error"
    /\ csrf_token # "None" => cookie

\* the page came with status 200, the cookie is missing, the process has ended
C10_Witness ==
    /\ response # None
    /\ response[1].status = 200
    /\ ~cookie
    /\ pc = "exited"
    /\ lastEvent = "csrf_missing"
    /\ page_requests = 1

(***************************************************************************)
(* C11.  The steps of a record come in the order page fetch, CSRF          *)
(* extraction, entry extraction, archive name, directory creation,         *)
(* downloads, done: each step leads to the next stage, stays in the        *)
(* download loop, or ends the process.  No image is requested and no file  *)
(* written before the directory exists, and once archive_directory_name is *)
(* set it never changes.                                                   *)
(***************************************************************************)
Stage(p) ==
    CASE p = "fetch_record_page" -> 0
      [] p = "get_csrf_token" -> 1
      [] p = "parse_image_URLs_and_labels" -> 2
      [] p = "parse_archive_name" -> 3
      [] p = "create_archive_directory" -> 4
      [] p \in {"for", "while", "sleep"} -> 5
      [] p = "done" -> 6
      [] OTHER -> 7

C11_State ==
    /\ pc = "get_csrf_token" => csrf_token = "None" /\ NothingDone
    /\ pc = "parse_image_URLs_and_labels" => csrf_token # "None" /\ NothingDone
    /\ pc = "parse_archive_name" =>
          /\ image_URLs_and_labels # None
          /\ archive_directory_name = "None"
          /\ dirs = DirsOfDisk
          /\ attempted = <<>>
    /\ pc = "create_archive_directory" =>
          archive_directory_name # "None" /\ dirs = DirsOfDisk /\ attempted = <<>>
    /\ pc \in {"for", "while", "sleep", "done"} =>
          /\ archive_directory_name \in dirs
          /\ csrf_token # "None"
          /\ image_URLs_and_labels # None
    /\ (attempted # <<>> \/ requests > 0 \/ saves > 0) => archive_directory_name \in dirs

C11_StepsInOrder ==
    /\ []C11_State
    /\ [][/\ pc' # "exited" =>
                /\ Stage(pc') \in {Stage(pc), Stage(pc) + 1}
                /\ Stage(pc') = Stage(pc) => Stage(pc) = 5
          /\ archive_directory_name # "None" =>
                archive_directory_name' = archive_directory_name
          /\ (attempted' # attempted \/ disk' # disk) =>
                Stage(pc) = 5 /\ archive_directory_name \in dirs]_vars

\* a record went through every stage: its directory was created by this run
\* and an image lies in it
C11_Witness ==
    /\ pc = "done"
    /\ archive_directory_name \in dirs
    /\ \A l \in Labels : disk[<<archive_directory_name, l>>] \in {"absent", "image"}
    /\ \E l \in Labels : disk[<<archive_directory_name, l>>] = "image"
    /\ attempted = <<1, 2>>

(***************************************************************************)
(* C20.  Every file given up is reported: when download_files gives up on  *)
(* file n (a status other than 200, an unexpected error, the third         *)
(* connection error) the latest log line is a "Skipping file n" line, and  *)
(* a "Retrying file n, Attempt (k)" line is logged only when another       *)
(* request for file n follows.                                             *)
(***************************************************************************)
SkippingKinds == {"skipping_status", "skipping_exception", "skipping_failed_attempts"}

C20_EveryAbandonReported ==
    /\ lastEvent \in {"non200", "other_error", "write_error", "attempts_exhausted"} =>
          lastLog.kind \in SkippingKinds /\ lastLog.file = file_number
    /\ (lastEvent = "connection_error" /\ lastLog.kind = "retrying") => CanRequest

\* what holds of the code: a response other than 200 and an exception are
\* reported as skipped; a connection error always logs "Retrying", the third
\* time too, and the file is then given up with no further line
C20_ReportedButForExhaustion ==
    /\ lastEvent \in {"non200", "other_error", "write_error"} =>
          lastLog.kind \in SkippingKinds /\ lastLog.file = file_number
    /\ lastEvent = "connection_error" =>
          lastLog = LogLine("info", "retrying", file_number, request_attempts)
    /\ lastEvent = "attempts_exhausted" =>
          lastLog = LogLine("info", "retrying", file_number, MaxAttempts)
    /\ lastLog.kind # "skipping_failed_attempts"

(***************************************************************************)
(* Strings.  Where the text of a string matters (parse_archive_name), a    *)
(* string is the sequence of its characters.                               *)
(***************************************************************************)
\* longest register table, in cells
MaxCells == 3
\* most path segments of a record URL
MaxPathSegments == 2

Letters == {"a", "b"}
Digits == {"0", "4"}
\* str.isalnum, character by character
IsAlnum(c) == c \in Letters \cup Digits

RECURSIVE KeepAlnum(_)
\* "".join([_ for _ in path if _.isalnum()])
KeepAlnum(s) ==
    IF s = <<>> THEN <<>>
    ELSE (IF IsAlnum(Head(s)) THEN <<Head(s)>> ELSE <<>>) \o KeepAlnum(Tail(s))

RECURSIVE Without(_, _)
\* s without the characters of the set cs
Without(s, cs) ==
    IF s = <<>> THEN <<>>
    ELSE (IF Head(s) \in cs THEN <<>> ELSE <<Head(s)>>) \o Without(Tail(s), cs)

RECURSIVE LStrip(_, _)
LStrip(s, cs) == IF s # <<>> /\ Head(s) \in cs THEN LStrip(Tail(s), cs) ELSE s

RECURSIVE RStrip(_, _)
RStrip(s, cs) ==
    IF s # <<>> /\ s[Len(s)] \in cs THEN RStrip(SubSeq(s, 1, Len(s) - 1), cs) ELSE s

\* str.strip(chars)
Strip(s, cs) == RStrip(LStrip(s, cs), cs)

RECURSIVE Split(_, _)
\* str.split(sep) for a one-character sep: always at least one part
Split(s, sep) ==
    IF \A i \in 1..Len(s) : s[i] # sep THEN <<s>>
    ELSE LET i == CHOOSE k \in 1..Len(s) :
                      s[k] = sep /\ \A j \in 1..(k - 1) : s[j] # sep
         IN  <<SubSeq(s, 1, i - 1)>> \o Split(SubSeq(s, i + 1, Len(s)), sep)

\* list[-2:]
LastTwo(l) == SubSeq(l, Max(1, Len(l) - 1), Len(l))

\* the characters pathvalidate's sanitize_filename removes
InvalidFilenameChars == {"/", "?"}

\* pathvalidate.sanitize_filename: the invalid characters are removed, then
\* trailing spaces and dots
PathvalidateSanitize(s) == RStrip(Without(s, InvalidFilenameChars), {" ", "."})

\* sanitize_filename: pathvalidate's when it is installed, else lines 19-20
sanitize_filename(path) ==
    IF pathvalidate THEN PathvalidateSanitize(path) ELSE KeepAlnum(path)

\* os.path.join(a, b) on POSIX
os_path_join(a, b) ==
    IF b # <<>> /\ Head(b) = "/" THEN b
    ELSE IF a = <<>> \/ a[Len(a)] = "/" THEN a \o b
    ELSE a \o <<"/">> \o b

RECURSIVE NormParts(_, _)
\* os.path.normpath of a relative path, as the list of its components: empty
\* components and "." go, ".." takes the component before it
NormParts(parts, acc) ==
    IF parts = <<>> THEN acc
    ELSE LET p == Head(parts)
         IN  IF p = <<>> \/ p = <<".">> THEN NormParts(Tail(parts), acc)
             ELSE IF p = <<".", ".">> /\ acc # <<>> /\ acc[Len(acc)] # <<".", ".">>
                  THEN NormParts(Tail(parts), SubSeq(acc, 1, Len(acc) - 1))
                  ELSE NormParts(Tail(parts), Append(acc, p))

os_path_normpath(path) == NormParts(Split(path, "/"), <<>>)

\* self.base_images_dir, "./images" in __main__
base_images_dir == <<".", "/", "i">>

\* str(uuid.uuid4()) with every random digit h: 8-4-4-4-12, version digit 4
UUIDString(h) ==
    <<h, h, h, h, h, h, h, h, "-", h, h, h, h, "-", "4", h, h, h, "-", "a", h, h, h, "-",
      h, h, h, h, h, h, h, h, h, h, h, h>>

\* s[0:18]
First18(s) == SubSeq(s, 1, Min(18, Len(s)))

(***************************************************************************)
(* parse_archive_name and create_archive_directory on the text of their    *)
(* inputs: the record URL, the register table of the page, the options.    *)
(***************************************************************************)
\* scheme and host of a record URL
UrlPrefix == <<"h", ":", "/", "/", "x">>
SegmentNames == {<<"a">>, <<"0">>}
Queries == {<<>>, <<"?", "p", "=", "4">>}

RECURSIVE UrlPath(_)
UrlPath(segs) == IF segs = <<>> THEN <<>> ELSE <<"/">> \o Head(segs) \o UrlPath(Tail(segs))

MakeURL(segs, slash, query) ==
    UrlPrefix \o UrlPath(segs) \o (IF slash THEN <<"/">> ELSE <<>>) \o query

\* a URL with no "/" in it
BareURL == <<"x">>

RecordURLs ==
    { MakeURL(segs, slash, query) :
        segs \in SeqsUpTo(SegmentNames, MaxPathSegments), slash \in BOOLEAN, query \in Queries }
    \cup {BareURL}

\* the text of a cell of the register table
CellTexts == {<<"a">>, <<" ", "0", " ">>, <<"?">>, <<>>}

\* the td cells of table.table-register-data, None when the page has no such table
Tables == {None} \cup {Some(cells) : cells \in SeqsUpTo(CellTexts, MaxCells)}

InitName ==
    /\ file_range = None /\ skip_existing = FALSE /\ CRAWL_SPEED = DefaultCrawlSpeed
    /\ csrf_token = "token" /\ image_URLs_and_labels = <<>>
    /\ archive_directory_name = None
    /\ cookie = TRUE /\ response = None
    /\ disk = [p \in Paths |-> "absent"] /\ dirs = {}
    /\ pc = "parse_archive_name" /\ index = 0 /\ request_attempts = 0
    /\ exit_status = None
    /\ page_requests = 1 /\ parsed_count = 1 /\ attempted = <<>>
    /\ requests = 0 /\ saves = 0 /\ unpaced = FALSE /\ last_sleep = 0
    /\ lastEvent = "parsed" /\ lastLog = NoLog
    /\ record_URL \in {Some(u) : u \in RecordURLs}
    /\ deep_hierarchy \in BOOLEAN
    /\ include_fullname \in BOOLEAN
    /\ simple_dirnames \in BOOLEAN
    /\ pathvalidate \in BOOLEAN
    /\ register_data \in Tables
    /\ archive_category = None /\ archive_id = None /\ tier = 0
    /\ archive_directory_path = None
    /\ BatchIdle

\* what the naming steps leave alone
nameFrame == <<file_range, skip_existing, CRAWL_SPEED, csrf_token, image_URLs_and_labels,
               envVars, index, request_attempts, exit_status, page_requests, parsed_count,
               attempted, requests, saves, unpaced, last_sleep, lastLog, record_URL,
               deep_hierarchy, include_fullname, simple_dirnames, pathvalidate, register_data,
               batchVars>>

\* lines 224-241 run to the end without raising
Tier1Succeeds ==
    /\ ~simple_dirnames
    /\ register_data # None
    /\ Len(register_data[1]) >= 2

Tier1Category == Strip(register_data[1][1], {" "})

\* lines 232-239: the full name is appended when there is a third cell and
\* its stripped text is not empty
Tier1Id ==
    LET cells == register_data[1]
        id == Strip(cells[2], {" "})
    IN  IF include_fullname /\ Len(cells) >= 3 /\ Strip(cells[3], {" "}) # <<>>
        THEN id \o <<"_", "_">> \o Strip(cells[3], {" "})
        ELSE id

\* line 248: self.record_URL.strip("/").split("/")[-2:]
Tier2Parts == LastTwo(Split(Strip(record_URL[1], {"/"}), "/"))

\* the unpacking into two names succeeds
Tier2Succeeds == Len(Tier2Parts) = 2

ParseArchiveNameTier1 ==
    /\ pc = "parse_archive_name"
    /\ Tier1Succeeds
    /\ archive_category' = Some(Tier1Category)
    /\ archive_id' = Some(Tier1Id)
    /\ tier' = 1
    /\ pc' = "sanitize"
    /\ lastEvent' = "tier1"
    /\ UNCHANGED <<archive_directory_name, archive_directory_path, nameFrame>>

ParseArchiveNameTier2 ==
    /\ pc = "parse_archive_name"
    /\ ~Tier1Succeeds
    /\ Tier2Succeeds
    /\ archive_category' = Some(Tier2Parts[1])
    /\ archive_id' = Some(Tier2Parts[2])
    /\ tier' = 2
    /\ pc' = "sanitize"
    /\ lastEvent' = "tier2"
    /\ UNCHANGED <<archive_directory_name, archive_directory_path, nameFrame>>

ParseArchiveNameTier3 ==
    /\ pc = "parse_archive_name"
    /\ ~Tier1Succeeds
    /\ ~Tier2Succeeds
    /\ \E h \in Letters \cup Digits :
          archive_directory_name' = Some(First18(UUIDString(h)))
    /\ tier' = 3
    /\ pc' = "create_archive_directory"
    /\ lastEvent' = "tier3"
    /\ UNCHANGED <<archive_category, archive_id, archive_directory_path, nameFrame>>

\* lines 261-268
SanitizeAndJoin ==
    /\ pc = "sanitize"
    /\ LET category == sanitize_filename(archive_category[1])
           id == sanitize_filename(archive_id[1])
       IN  /\ archive_category' = Some(category)
           /\ archive_id' = Some(id)
           /\ archive_directory_name' =
                 Some(IF deep_hierarchy THEN os_path_join(category, id)
                                        ELSE category \o <<"_">> \o id)
    /\ pc' = "create_archive_directory"
    /\ lastEvent' = "named"
    /\ UNCHANGED <<tier, archive_directory_path, nameFrame>>

\* create_archive_directory, on the text of the path
CreateArchiveDirectoryPath ==
    /\ pc = "create_archive_directory"
    /\ archive_directory_path' =
          Some(os_path_normpath(os_path_join(base_images_dir, archive_directory_name[1])))
    /\ pc' = "for"
    /\ lastEvent' = "directory_created"
    /\ UNCHANGED <<archive_directory_name, archive_category, archive_id, tier, nameFrame>>

parse_archive_name ==
    \/ ParseArchiveNameTier1
    \/ ParseArchiveNameTier2
    \/ ParseArchiveNameTier3
    \/ SanitizeAndJoin

NextName == parse_archive_name \/ CreateArchiveDirectoryPath

SpecName == InitName /\ [][NextName]_vars

(***************************************************************************)
(* Claims about the archive directory name (SpecName).                      *)
(***************************************************************************)
RECURSIVE NonEmptyParts(_)
NonEmptyParts(parts) ==
    IF parts = <<>> THEN <<>>
    ELSE (IF Head(parts) = <<>> THEN <<>> ELSE <<Head(parts)>>) \o NonEmptyParts(Tail(parts))

\* the URL up to its query string
BeforeQuery(u) == Head(Split(u, "?"))

\* the segments of the path of a URL scheme://host/path?query
UrlPathSegments(u) ==
    LET parts == Split(BeforeQuery(u), "/")
    IN  IF Len(parts) <= 3 THEN <<>> ELSE NonEmptyParts(SubSeq(parts, 4, Len(parts)))

HasQuery(u) == \E i \in 1..Len(u) : u[i] = "?"

\* the URL tier has just produced category and identifier from a URL whose
\* path has two segments or more
C14_State(u) ==
    /\ pc = "sanitize"
    /\ tier = 2
    /\ record_URL = Some(u)
    /\ Len(UrlPathSegments(u)) >= 2

C14_LastTwoOf(u) ==
    LET segs == UrlPathSegments(u)
    IN  /\ archive_category = Some(segs[Len(segs) - 1])
        /\ archive_id = Some(segs[Len(segs)])

\* C14: when the table parse fails or simple_dirnames is set, category and
\* identifier are the last two segments of the path of the record URL, for
\* every record URL, with a trailing slash or a query string too.
C14_LastTwoPathSegments ==
    \A u \in RecordURLs : C14_State(u) => C14_LastTwoOf(u)

\* C14, what the code does: the claim holds for the URLs without a query
\* string, trailing slash or not; with a query string the text after the
\* last "/" of the whole URL is taken.
C14_LastTwoOfTheWholeURL ==
    \A u \in RecordURLs :
        C14_State(u) =>
            /\ ~HasQuery(u) => C14_LastTwoOf(u)
            /\ <<archive_category[1], archive_id[1]>> = LastTwo(Split(Strip(u, {"/"}), "/"))

\* the random name has been chosen
C15_State == tier = 3 /\ archive_directory_name # None

\* the random name is used alone, in hierarchical mode and in flat mode
C15_UsedAlone ==
    /\ archive_category = None /\ archive_id = None
    /\ \A i \in 1..Len(archive_directory_name[1]) : archive_directory_name[1][i] # "/"
    /\ archive_directory_path # None =>
          archive_directory_path[1] = <<<<"i">>, archive_directory_name[1]>>

\* C15: when the table tier and the URL tier both fail, the archive directory
\* name is a string of 18 alphanumeric characters with no slash, used alone
\* whatever the hierarchical/flat option is.
C15_RandomNameAlphanumeric ==
    C15_State =>
        /\ Len(archive_directory_name[1]) = 18
        /\ \A i \in 1..18 : IsAlnum(archive_directory_name[1][i])
        /\ C15_UsedAlone

\* C15, what the code does: the 18 characters are the first 18 of the text of
\* a UUID, hyphens included: 8 hex digits, "-", 4 hex digits, "-", 4 hex digits.
C15_RandomNameWithHyphens ==
    C15_State =>
        /\ Len(archive_directory_name[1]) = 18
        /\ \A i \in 1..18 :
              IF i \in {9, 14} THEN archive_directory_name[1][i] = "-"
                               ELSE IsAlnum(archive_directory_name[1][i])
        /\ C15_UsedAlone

\* a name has been built from a category/identifier pair of tier 1 or tier 2
C16_State == tier \in {1, 2} /\ pc \in {"create_archive_directory", "for"}

\* both parts went through sanitize_filename
C16_PartsSanitized ==
    /\ sanitize_filename(archive_category[1]) = archive_category[1]
    /\ sanitize_filename(archive_id[1]) = archive_id[1]

\* C16: for every category/identifier pair of tier 1 or tier 2 the final name
\* is category/identifier in hierarchical mode (one separator, two segments)
\* and category_identifier in flat mode, both parts sanitized first.
C16_CategoryIdentifierName ==
    C16_State =>
        /\ C16_PartsSanitized
        /\ IF deep_hierarchy
           THEN /\ archive_directory_name[1] = archive_category[1] \o <<"/">> \o archive_id[1]
                /\ Len(Split(archive_directory_name[1], "/")) = 2
           ELSE archive_directory_name[1] = archive_category[1] \o <<"_">> \o archive_id[1]

\* C16, what the code does: the claim holds unless the sanitized category is
\* empty in hierarchical mode, where os.path.join gives the identifier alone.
C16_UnlessCategoryEmpty ==
    C16_State =>
        /\ C16_PartsSanitized
        /\ IF deep_hierarchy
           THEN IF archive_category[1] = <<>>
                THEN archive_directory_name[1] = archive_id[1]
                ELSE /\ archive_directory_name[1] =
                           archive_category[1] \o <<"/">> \o archive_id[1]
                     /\ Len(Split(archive_directory_name[1], "/")) = 2
           ELSE archive_directory_name[1] = archive_category[1] \o <<"_">> \o archive_id[1]

\* the name was built from a table whose third cell holds a full name, with
\* include_fullname set
C17_State ==
    /\ tier = 1
    /\ include_fullname
    /\ pc \in {"create_archive_directory", "for"}
    /\ Len(register_data[1]) >= 3
    /\ Strip(register_data[1][3], {" "}) # <<>>

C17_Identifier == Strip(register_data[1][2], {" "})
C17_Fullname == Strip(register_data[1][3], {" "})

\* the identifier part is the last part of the name
C17_NameEndsWithIdentifier ==
    LET name == archive_directory_name[1]
        n == Len(archive_id[1])
    IN  Len(name) >= n /\ SubSeq(name, Len(name) - n + 1, Len(name)) = archive_id[1]

\* C17: with include_fullname set and a non-empty full name in the third
\* cell, the identifier part of the final name is <identifier>__<fullname>:
\* the "__" separator is still in the name used for the directory.
C17_SeparatorInFinalName ==
    C17_State =>
        /\ archive_id[1] = sanitize_filename(C17_Identifier) \o <<"_", "_">>
                              \o sanitize_filename(C17_Fullname)
        /\ C17_NameEndsWithIdentifier

\* C17, what the code does: pathvalidate's sanitizer keeps the separator, the
\* sanitizer of lines 19-20 removes it with every other non-alphanumeric
\* character.
C17_SeparatorOnlyWithPathvalidate ==
    C17_State =>
        /\ C17_NameEndsWithIdentifier
        /\ archive_id[1] =
              IF pathvalidate
              THEN PathvalidateSanitize(C17_Identifier) \o <<"_", "_">>
                      \o PathvalidateSanitize(C17_Fullname)
              ELSE KeepAlnum(C17_Identifier) \o KeepAlnum(C17_Fullname)

\* the directory of the record has been created
C18_State == archive_directory_path # None

C18_Components == Split(archive_directory_name[1], "/")

\* no component holds a character that breaks a path, and the only separator
\* is the one hierarchical mode puts between category and identifier
C18_NoPathBreakingCharacter ==
    /\ \A k \in 1..Len(C18_Components) :
          \A i \in 1..Len(C18_Components[k]) :
              C18_Components[k][i] \notin InvalidFilenameChars
    /\ Len(C18_Components) <= (IF deep_hierarchy /\ tier # 3 THEN 2 ELSE 1)

\* C18: whenever a directory is created the archive directory name is
\* filesystem-safe: its components are non-empty and free of path-breaking
\* characters, its only separator is the one of hierarchical mode, and the
\* directory is strictly below the base directory.
C18_FilesystemSafeName ==
    C18_State =>
        /\ C18_NoPathBreakingCharacter
        /\ \A k \in 1..Len(C18_Components) : C18_Components[k] # <<>>
        /\ Len(archive_directory_path[1]) > 1
        /\ archive_directory_path[1][1] = <<"i">>

\* C18, what the code does: no path-breaking character and no separator of
\* its own, but a part may be empty, and with two empty parts in
\* hierarchical mode the directory is the base directory itself.
C18_SafeButForEmptyParts ==
    C18_State =>
        /\ C18_NoPathBreakingCharacter
        /\ Len(archive_directory_path[1]) >= 1
        /\ archive_directory_path[1][1] = <<"i">>
        /\ Len(archive_directory_path[1]) = 1 =>
              deep_hierarchy /\ archive_category = Some(<<>>) /\ archive_id = Some(<<>>)

(***************************************************************************)
(* registers_page_parse_list_pages.  What the parser looks for in a        *)
(* registers page: the h3 with id register-header, the ul that follows it, *)
(* and the texts of the a.page-link elements of that ul.  The text of a    *)
(* link is Some(n) when int() reads it as n and None when int() raises.    *)
(***************************************************************************)
\* most page links of a registers page
MaxLinks == 3
\* highest page number on a link
MaxPageNo == 2

LinkTexts == {None} \cup {Some(n) : n \in 0..MaxPageNo}

\* page_links_list is None when no ul follows the header
PageLinkLists(texts, n) == {None} \cup {Some(links) : links \in SeqsUpTo(texts, n)}

IndexPage(header, links) == [register_header |-> header, page_links_list |-> links]

IndexPagesOver(texts, n) ==
    {IndexPage(h, l) : h \in BOOLEAN, l \in PageLinkLists(texts, n)}

IndexPages == IndexPagesOver(LinkTexts, MaxLinks)

\* the defaults of __init__ and no step of a record taken
RecordIdle ==
    /\ file_range = None /\ CRAWL_SPEED = DefaultCrawlSpeed
    /\ csrf_token = "None" /\ image_URLs_and_labels = None
    /\ archive_directory_name = "None"
    /\ index = 0 - 1 /\ request_attempts = 0
    /\ exit_status = None
    /\ page_requests = 0 /\ parsed_count = 0 /\ attempted = <<>>
    /\ requests = 0 /\ saves = 0 /\ unpaced = FALSE /\ last_sleep = 0
    /\ lastLog = NoLog

\* the registers page has been fetched with status 200 (line 87)
InitPages ==
    /\ RecordIdle
    /\ skip_existing = FALSE
    /\ NamingIdle
    /\ cookie = FALSE
    /\ disk = [p \in Paths |-> "absent"] /\ dirs = {}
    /\ response \in {Some(ip) : ip \in IndexPages}
    /\ pc = "registers_page_parse_list_pages"
    /\ lastEvent = "index_200"
    /\ registers_pages = None
    /\ list_page = 0 /\ rows_fetched = <<>> /\ record_urls = <<>> /\ record_pos = 0
    /\ index_requests = 1

\* what registers_page_parse_list_pages leaves alone
pagesFrame == <<objVars, envVars, index, request_attempts, page_requests, parsed_count,
                attempted, requests, saves, unpaced, last_sleep, nameVars, list_page,
                rows_fetched, record_urls, record_pos, index_requests>>

\* a parser that reads the last link
last_page_link_Last(links) == links[Len(links)]

\* line 160: findAll("a", {"class": "page-link"})[-2]
last_page_link(links) == links[Len(links) - 1]

\* range(n), each element plus one
PagesUpTo(n) == [i \in 1..n |-> i]

\* line 155-156: soup.find gives None and None has no findNext
ListPagesNoHeader ==
    /\ pc = "registers_page_parse_list_pages"
    /\ ~response[1].register_header
    /\ lastEvent' = "list_pages_exception"
    /\ log_error_and_exit("unexpected_error_fetching_registers_page")
    /\ UNCHANGED <<registers_pages, pagesFrame>>

\* lines 157-159: no ul after the header
ListPagesNoList ==
    /\ pc = "registers_page_parse_list_pages"
    /\ response[1].register_header
    /\ response[1].page_links_list = None
    /\ registers_pages' = Some(<<1>>)
    /\ lastEvent' = "pages_listed"
    /\ lastLog' = LogLine("info", "fetched_list_of_register_pages", 0, 0)
    /\ pc' = "record_urls_from_page"
    /\ UNCHANGED <<exit_status, pagesFrame>>

\* line 160: [-2] of a list of fewer than two links raises IndexError
ListPagesTooFewLinks ==
    /\ pc = "registers_page_parse_list_pages"
    /\ response[1].register_header
    /\ response[1].page_links_list # None
    /\ Len(response[1].page_links_list[1]) < 2
    /\ lastEvent' = "list_pages_exception"
    /\ log_error_and_exit("unexpected_error_fetching_registers_page")
    /\ UNCHANGED <<registers_pages, pagesFrame>>

\* line 161: int() of the link text raises ValueError
ListPagesNotANumber ==
    /\ pc = "registers_page_parse_list_pages"
    /\ response[1].register_header
    /\ response[1].page_links_list # None
    /\ Len(response[1].page_links_list[1]) >= 2
    /\ last_page_link(response[1].page_links_list[1]) = None
    /\ lastEvent' = "list_pages_exception"
    /\ log_error_and_exit("unexpected_error_fetching_registers_page")
    /\ UNCHANGED <<registers_pages, pagesFrame>>

\* lines 160-164: the pages 1..last_page_no
ListPagesRange ==
    /\ pc = "registers_page_parse_list_pages"
    /\ response[1].register_header
    /\ response[1].page_links_list # None
    /\ Len(response[1].page_links_list[1]) >= 2
    /\ last_page_link(response[1].page_links_list[1]) # None
    /\ LET last_page_no == last_page_link(response[1].page_links_list[1])[1]
       IN  registers_pages' = Some(PagesUpTo(last_page_no))
    /\ lastEvent' = "pages_listed"
    /\ lastLog' = LogLine("info", "fetched_list_of_register_pages", 0, 0)
    /\ pc' = "record_urls_from_page"
    /\ UNCHANGED <<exit_status, pagesFrame>>

registers_page_parse_list_pages ==
    \/ ListPagesNoHeader
    \/ ListPagesNoList
    \/ ListPagesTooFewLinks
    \/ ListPagesNotANumber
    \/ ListPagesRange

SpecPages == InitPages /\ [][registers_page_parse_list_pages]_vars

\* the registers page of a finished run of registers_page_parse_list_pages
C19_Page == response[1]

C19_Listed == lastEvent = "pages_listed"
C19_Fatal == lastEvent = "list_pages_exception"

C19_Links == C19_Page.page_links_list[1]

\* the page has a header, a list, two links or more and an integer on the
\* second-to-last link
C19_HasLastPageNo ==
    /\ C19_Page.register_header
    /\ C19_Page.page_links_list # None
    /\ Len(C19_Links) >= 2
    /\ C19_Links[Len(C19_Links) - 1] # None

\* C19: registers_page_parse_list_pages yields the single page 1 when no list
\* follows the header, and otherwise the dense increasing range 1..N, N the
\* integer text of the second-to-last page link; a missing header, fewer than
\* two links or a non-integer text is fatal and yields nothing.
C19_PagesOneToN ==
    /\ C19_Listed =>
          /\ exit_status = None
          /\ C19_Page.register_header
          /\ C19_Page.page_links_list = None => registers_pages = Some(<<1>>)
          /\ C19_Page.page_links_list # None =>
                /\ C19_HasLastPageNo
                /\ LET N == C19_Links[Len(C19_Links) - 1][1]
                   IN  /\ Len(registers_pages[1]) = N
                       /\ \A i \in 1..N : registers_pages[1][i] = i
    /\ C19_Fatal =>
          /\ pc = "exited"
          /\ registers_pages = None
          /\ ~(C19_Page.register_header /\ C19_Page.page_links_list = None)
          /\ ~C19_HasLastPageNo
    /\ (pc = "registers_page_parse_list_pages" /\ lastEvent = "index_200") =>
          registers_pages = None
    /\ lastEvent \in {"index_200", "pages_listed", "list_pages_exception"}

\* a list of three links whose second-to-last reads 2 and whose last reads 1
\* gave the pages 1, 2
C19_Witness ==
    /\ C19_Listed
    /\ C19_Page.page_links_list # None
    /\ Len(C19_Links) = 3
    /\ C19_Links[2] = Some(2) /\ C19_Links[3] = Some(1)
    /\ registers_pages = Some(<<1, 2>>)

(***************************************************************************)
(* fetch_registers_page_and_download_all.  A record URL is                 *)
(* f"{base}/{register_name}", named here by the page and the row it was    *)
(* found on.  list() at lines 87, 101 and 110 runs the generators to       *)
(* their end before line 115 is reached.                                   *)
(***************************************************************************)
\* most rows with a register name on one ?page=n page
MaxRows == 2
\* most record URLs of a run
MaxRecords == 3

\* the URL the Downloader was made with
BaseURL == <<0, 0>>

\* a ?page=n page: whether it has the div.table-responsive, and its rows
ListPage(div, rows) == [table_responsive |-> div, rows |-> rows]

InitBatch ==
    /\ RecordIdle
    /\ skip_existing \in BOOLEAN
    /\ record_URL = Some(BaseURL)
    /\ deep_hierarchy = FALSE /\ include_fullname = FALSE /\ simple_dirnames = FALSE
    /\ pathvalidate = FALSE /\ register_data = None
    /\ archive_category = None /\ archive_id = None /\ tier = 0
    /\ archive_directory_path = None
    /\ BatchIdle
    /\ cookie = FALSE /\ response = None
    /\ disk = [p \in Paths |-> "absent"] /\ dirs = {}
    /\ pc = "fetch_index"
    /\ lastEvent = "init"

\* what the steps before line 115 leave alone
indexFrame == <<objVars, cookie, disk, dirs, index, request_attempts, page_requests,
                parsed_count, attempted, requests, saves, unpaced, last_sleep, nameVars>>

\* line 81: session.get raises; the handler of line 119 logs and exits
FetchIndexRaises ==
    /\ pc = "fetch_index"
    /\ index_requests' = index_requests + 1
    /\ lastEvent' = "index_exception"
    /\ log_error_and_exit("unexpected_error_fetching_and_parsing_registers_page")
    /\ UNCHANGED <<response, registers_pages, list_page, rows_fetched, record_urls, record_pos>>
    /\ UNCHANGED indexFrame

\* lines 82-86
FetchIndexNon200 ==
    /\ pc = "fetch_index"
    /\ index_requests' = index_requests + 1
    /\ response' = Some(ErrorPage)
    /\ lastEvent' = "index_non200"
    /\ log_error_and_exit("status_code_fetching_csrf_token")
    /\ UNCHANGED <<registers_pages, list_page, rows_fetched, record_urls, record_pos>>
    /\ UNCHANGED indexFrame

\* line 81 with status 200
FetchIndex200 ==
    /\ pc = "fetch_index"
    /\ index_requests' = index_requests + 1
    /\ \E ip \in IndexPages : response' = Some(ip)
    /\ lastEvent' = "index_200"
    /\ pc' = "registers_page_parse_list_pages"
    /\ UNCHANGED <<exit_status, lastLog>>
    /\ UNCHANGED <<registers_pages, list_page, rows_fetched, record_urls, record_pos>>
    /\ UNCHANGED indexFrame

\* a chain that hands over the URLs of the first page before the next page
\* is fetched
AllPagesFetched_Lazy == list_page >= Min(1, Len(registers_pages[1]))

\* line 110: list() has taken every page of registers_pages
AllPagesFetched == list_page = Len(registers_pages[1])

\* the page record_urls_from_page is called with next
NextListPage == registers_pages[1][list_page + 1]

\* the URLs of the rows of a page, in row order
RowURLs(page, rows) == [r \in 1..rows |-> <<page, r>>]

\* line 95: session.get raises inside the generator; the exception leaves
\* list() and is caught at line 119
FetchListPageRaises ==
    /\ pc = "record_urls_from_page"
    /\ ~AllPagesFetched
    /\ index_requests' = index_requests + 1
    /\ lastEvent' = "list_page_exception"
    /\ log_error_and_exit("unexpected_error_fetching_and_parsing_registers_page")
    /\ UNCHANGED <<response, registers_pages, list_page, rows_fetched, record_urls, record_pos>>
    /\ UNCHANGED indexFrame

\* lines 96-100
FetchListPageNon200 ==
    /\ pc = "record_urls_from_page"
    /\ ~AllPagesFetched
    /\ index_requests' = index_requests + 1
    /\ response' = Some(ErrorPage)
    /\ lastEvent' = "list_page_non200"
    /\ log_error_and_exit("status_code_fetching_csrf_token")
    /\ UNCHANGED <<registers_pages, list_page, rows_fetched, record_urls, record_pos>>
    /\ UNCHANGED indexFrame

\* line 101, registers_page_parse: the page has no div.table-responsive
FetchListPageParseRaises ==
    /\ pc = "record_urls_from_page"
    /\ ~AllPagesFetched
    /\ index_requests' = index_requests + 1
    /\ response' = Some(ListPage(FALSE, 0))
    /\ lastEvent' = "registers_page_parse_exception"
    /\ log_error_and_exit("unexpected_error_fetching_registers_page")
    /\ UNCHANGED <<registers_pages, list_page, rows_fetched, record_urls, record_pos>>
    /\ UNCHANGED indexFrame

\* lines 94-105: the rows of the page, in row order, go to the end of the list
FetchListPage200 ==
    /\ pc = "record_urls_from_page"
    /\ ~AllPagesFetched
    /\ index_requests' = index_requests + 1
    /\ \E rows \in 0..Min(MaxRows, MaxRecords - Len(record_urls)) :
          /\ response' = Some(ListPage(TRUE, rows))
          /\ rows_fetched' = Append(rows_fetched, rows)
          /\ record_urls' = record_urls \o RowURLs(NextListPage, rows)
    /\ list_page' = list_page + 1
    /\ lastEvent' = "list_page_200"
    /\ lastLog' = LogLine("info", "fetched_archive_urls", 0, 0)
    /\ UNCHANGED <<pc, exit_status, registers_pages, record_pos>>
    /\ UNCHANGED indexFrame

\* lines 110-112: the list is complete
RecordUrlsComplete ==
    /\ pc = "record_urls_from_page"
    /\ AllPagesFetched
    /\ pc' = "records"
    /\ lastEvent' = "record_urls_complete"
    /\ lastLog' = LogLine("info", "found_total_of_archive_urls", 0, 0)
    /\ UNCHANGED <<response, exit_status, batchVars>>
    /\ UNCHANGED indexFrame

\* lines 115-117: the next record URL is taken and fetch_record_page is
\* called.  The counters that observe one record start again.
NextRecord ==
    /\ pc = "records"
    /\ record_pos < Len(record_urls)
    /\ record_pos' = record_pos + 1
    /\ record_URL' = Some(record_urls[record_pos + 1])
    /\ pc' = "fetch_record_page"
    /\ index' = 0 - 1
    /\ request_attempts' = 0
    /\ page_requests' = 0 /\ parsed_count' = 0 /\ attempted' = <<>>
    /\ requests' = 0 /\ saves' = 0 /\ unpaced' = FALSE /\ last_sleep' = 0
    /\ lastEvent' = "next_record"
    /\ UNCHANGED <<objVars, envVars, exit_status, lastLog>>
    /\ UNCHANGED <<deep_hierarchy, include_fullname, simple_dirnames, pathvalidate,
                   register_data, archive_category, archive_id, tier, archive_directory_path>>
    /\ UNCHANGED <<registers_pages, list_page, rows_fetched, record_urls, index_requests>>

\* line 115: no record URL is left, the method returns and the script ends
RecordsExhausted ==
    /\ pc = "records"
    /\ record_pos >= Len(record_urls)
    /\ pc' = "done"
    /\ exit_status' = Some(NormalStatus)
    /\ lastEvent' = "all_records_done"
    /\ UNCHANGED <<objVars, envVars, index, request_attempts>>
    /\ UNCHANGED <<page_requests, parsed_count, attempted, requests, saves, unpaced,
                   last_sleep, lastLog>>
    /\ UNCHANGED extVars

\* line 118: download_files returns to the loop of line 115
BatchForExhausted ==
    /\ pc = "for"
    /\ record_pos >= 1
    /\ index + 1 >= Len(Entries)
    /\ pc' = "records"
    /\ lastEvent' = "returned"
    /\ UNCHANGED <<objVars, envVars, index, request_attempts, exit_status>>
    /\ UNCHANGED <<page_requests, parsed_count, attempted, requests, saves, unpaced,
                   last_sleep, lastLog>>
    /\ UNCHANGED extVars

\* lines 278-280 under line 118: createValidURL raises, the exception leaves
\* download_files and is caught at line 119
BatchForResolveRaises ==
    /\ HasNext
    /\ record_pos >= 1
    /\ index' = index + 1
    /\ request_attempts' = 0
    /\ requests' = 0
    /\ saves' = 0
    /\ lastEvent' = "resolve_error"
    /\ log_error_and_exit("unexpected_error_fetching_and_parsing_registers_page")
    /\ UNCHANGED <<objVars, envVars>>
    /\ UNCHANGED <<page_requests, parsed_count, attempted, unpaced, last_sleep>>
    /\ UNCHANGED extVars

\* download_files as called at line 118
batch_download_files ==
    \/ BatchForExhausted
    \/ BatchForResolveRaises
    \/ ForSkipExisting
    \/ ForStartFile
    \/ WhileExhausted
    \/ Request200Saved
    \/ Request200WriteRaises
    \/ RequestNon200
    \/ RequestConnectionError
    \/ RequestOtherError
    \/ Sleep

fetch_registers_page_and_download_all ==
    \/ FetchIndexRaises
    \/ FetchIndexNon200
    \/ FetchIndex200
    \/ registers_page_parse_list_pages
    \/ FetchListPageRaises
    \/ FetchListPageNon200
    \/ FetchListPageParseRaises
    \/ FetchListPage200
    \/ RecordUrlsComplete
    \/ NextRecord
    \/ RecordsExhausted
    \/ fetch_record_page
    \/ batch_download_files

SpecBatch == InitBatch /\ [][fetch_registers_page_and_download_all]_vars

(***************************************************************************)
(* Claims about batch mode (SpecBatch).                                    *)
(***************************************************************************)
RECURSIVE C12_Flatten(_, _)
\* the URLs of the pages from page p on, page by page and row by row, where
\* rows[p] rows were found on page p
C12_Flatten(rows, p) ==
    IF p > Len(rows) THEN <<>> ELSE RowURLs(p, rows[p]) \o C12_Flatten(rows, p + 1)

\* the steps of one record
C12_RecordSteps ==
    {"fetch_record_page", "get_csrf_token", "parse_image_URLs_and_labels",
     "parse_archive_name", "create_archive_directory", "for", "while", "sleep"}

\* the loop of line 115 has been reached
C12_RecordPhase == pc = "records" \/ pc \in C12_RecordSteps \/ record_pos >= 1

\* every page has been fetched and the list is the flattening of their rows
C12_ListComplete ==
    /\ registers_pages # None
    /\ list_page = Len(registers_pages[1])
    /\ Len(rows_fetched) = Len(registers_pages[1])
    /\ index_requests = 1 + Len(registers_pages[1])
    /\ record_urls = C12_Flatten(rows_fetched, 1)

\* C12: in batch mode the index page and every pagination page are fetched
\* and their record URLs flattened, page order then row order, before the
\* first record page is fetched; the records are then processed one at a
\* time in that order, the download loop of a record finishing before the
\* page of the next record is fetched.
C12_IndexThenRecordsInOrder ==
    /\ [](C12_RecordPhase => C12_ListComplete)
    /\ [](pc \in C12_RecordSteps =>
             /\ record_pos \in 1..Len(record_urls)
             /\ record_URL = Some(record_urls[record_pos]))
    /\ [][/\ C12_RecordPhase =>
                UNCHANGED <<index_requests, record_urls, registers_pages, rows_fetched>>
          /\ record_pos' # record_pos =>
                /\ pc = "records" /\ pc' = "fetch_record_page"
                /\ record_pos' = record_pos + 1
                /\ record_pos >= 1 => lastEvent = "returned" /\ index + 1 >= Len(Entries)
          /\ pc' = "fetch_record_page" => record_pos' = record_pos + 1
          /\ (pc \in C12_RecordSteps /\ pc' \notin C12_RecordSteps) =>
                \/ pc' = "exited"
                \/ pc = "for" /\ pc' = "records" /\ index + 1 >= Len(Entries)]_vars

\* two pages, two rows on the first and one on the second: the third record,
\* row 1 of page 2, is in hand after an image of the second was saved
C12_Witness ==
    /\ registers_pages = Some(<<1, 2>>)
    /\ rows_fetched = <<2, 1>>
    /\ record_urls = <<<<1, 1>>, <<1, 2>>, <<2, 1>>>>
    /\ record_pos = 3
    /\ record_URL = Some(<<2, 1>>)
    /\ pc = "while"
    /\ \E p \in Paths : disk[p] = "image"

\* the parse and status-code errors of the registers pages
C13_IndexErrors ==
    {"index_non200", "list_pages_exception", "list_page_non200",
     "registers_page_parse_exception"}

\* the log line of the handler of line 119
C13_OuterHandlerLine ==
    LogLine("error", "unexpected_error_fetching_and_parsing_registers_page", 0, 0)

\* C13: in batch mode a fatal parse or status-code error on a registers page
\* or on a record ends the process at once: nothing is fetched or downloaded
\* after it, the handlers around the call do not swallow it, and the files
\* of the earlier records stay where they are.
C13_FatalEndsTheBatch ==
    /\ [](lastEvent \in C13_IndexErrors \cup FatalEvents =>
             /\ pc = "exited"
             /\ exit_status # None
             /\ lastLog.level = "error"
             /\ lastLog # C13_OuterHandlerLine)
    /\ [][/\ pc # "exited"
          /\ pc' = "exited" => disk' = disk /\ dirs' = dirs]_vars

\* the page of the second record came back with a status other than 200:
\* the process has ended, an image of the first record is on the disk and
\* the third record was never fetched
C13_Witness ==
    /\ pc = "exited"
    /\ lastEvent = "page_non200"
    /\ record_pos = 2
    /\ Len(record_urls) = 3
    /\ \E p \in Paths : disk[p] = "image"

====
